---- MODULE Spec2Model ----
(***************************************************************************)
(* Ryven NodeInstance (custom_src/NodeInstance.py): the update propagation *)
(* protocol, port management and the serialization contract of a node      *)
(* instance, as a state machine over a small flow of node instances.       *)
(*                                                                         *)
(* Python objects are records; a port is identified by its position in the *)
(* table `port` (its object identity).  A Python call that can raise is an  *)
(* operator on a "world" record w whose field exc names the exception in    *)
(* flight ("none" when the call returned normally).                         *)
(***************************************************************************)
EXTENDS Integers, Sequences, FiniteSets, TLC

\* ---------------------------------------------------------------- bounds
NumNodes == 3
MaxNewPorts == 1
MaxDeletes == 1

Nodes == 1..NumNodes
Vals == {"v1", "v2"}

VARIABLES
    inputs,           \* NodeInstance.inputs: node -> sequence of port ids
    outputs,          \* NodeInstance.outputs: node -> sequence of port ids
    port,             \* the port instances ever constructed, by id
    parent_node,      \* NodeInstance.parent_node: the node kind of each instance
    initializing,     \* NodeInstance.initializing
    special_actions,  \* NodeInstance.special_actions
    state,            \* the custom state behind get_data / set_data
    saved,            \* the last description returned by get_json_data
    last              \* the last API call made by the host and its outcome

vars == <<inputs, outputs, port, parent_node, initializing, special_actions, state, saved, last>>

\* ------------------------------------------------------ python list helpers

\* list[i]: the 1-based position list[i] denotes, 0 when it raises IndexError.
PyIndex(len, i) ==
    IF 0 <= i /\ i < len THEN i + 1
    ELSE IF i < 0 /\ -len <= i THEN len + i + 1
    ELSE 0

\* list.index(x): the 0-based position of the first x, -1 when it raises ValueError.
ListIndex(list, x) ==
    IF \E j \in 1..Len(list) : list[j] = x
    THEN (CHOOSE j \in 1..Len(list) : list[j] = x /\ \A h \in 1..(j - 1) : list[h] # x) - 1
    ELSE -1

\* list.remove(x): the list without its first x (the list itself when x is absent).
ListRemove(list, x) ==
    LET j == ListIndex(list, x) + 1
    IN  IF j = 0 THEN list
        ELSE [h \in 1..(Len(list) - 1) |-> IF h < j THEN list[h] ELSE list[h + 1]]

\* list.insert(pos, x), with Python's clamping of pos.
ListInsert(list, pos, x) ==
    LET n == Len(list)
        q == IF pos < 0 THEN (IF pos + n < 0 THEN 0 ELSE pos + n)
             ELSE IF pos > n THEN n ELSE pos
    IN  [h \in 1..(n + 1) |-> IF h <= q THEN list[h] ELSE IF h = q + 1 THEN x ELSE list[h - 1]]

\* ------------------------------------------------------------- the world

World ==
    [inputs |-> inputs, outputs |-> outputs, port |-> port,
     parent_node |-> parent_node, initializing |-> initializing, special_actions |-> special_actions,
     state |-> state, calls |-> <<>>, exc |-> "none", faulty |-> {}, bad_index |-> {},
     steps |-> <<>>]

Commit(w) ==
    /\ inputs' = w.inputs
    /\ outputs' = w.outputs
    /\ port' = w.port
    /\ parent_node' = w.parent_node
    /\ initializing' = w.initializing
    /\ special_actions' = w.special_actions
    /\ state' = w.state

Raise(w, e) == [w EXCEPT !.exc = e]

\* The statements of initialized() executed so far, in order.
Step(w, name) == [w EXCEPT !.steps = Append(@, name)]

\* A port instance as constructed by InputPortInstance(...) / OutputPortInstance(...).
NewPort(n, dir, type_, label, widget) ==
    [owner |-> n, direction |-> dir, type_ |-> type_, label |-> label,
     widget |-> widget, val |-> "None", conn |-> <<>>]

\* ----------------------------------------------- PortInstance, Flow (peers)

\* InputPortInstance.get_val(): the connected output's value if connected,
\* else the widget's value, else None.
get_val(w, p) ==
    IF w.port[p].conn # <<>> THEN w.port[w.port[p].conn[1]].val
    ELSE IF w.port[p].widget # "" THEN w.port[p].widget
    ELSE "None"

\* OutputPortInstance.set_val(val): stores the value, propagates nothing.
set_val(w, p, v) == [w EXCEPT !.port[p].val = v]

\* Flow.connect_gates(a, b): severs the connection when a and b are connected,
\* connects them otherwise.
connect_gates(w, a, b) ==
    IF ListIndex(w.port[a].conn, b) >= 0
    THEN [w EXCEPT !.port[a].conn = ListRemove(@, b),
                   !.port[b].conn = ListRemove(@, a)]
    ELSE [w EXCEPT !.port[a].conn = Append(@, b),
                   !.port[b].conn = Append(@, a)]

\* ------------------------------------------------------------ NodeInstance

RECURSIVE update(_, _, _, _)
RECURSIVE notify(_, _, _)
RECURSIVE data_outputs_loop(_, _, _)
RECURSIVE exec_outputs_loop(_, _, _)
RECURSIVE set_outputs_loop(_, _, _, _)

\* InputPortInstance.update(), called by the output port src: activates the
\* owner with the index of this input in the owner's inputs list.
port_update(w, src, p) ==
    LET n == w.port[p].owner
        k == ListIndex(w.inputs[n], p)
    IN  IF k < 0 THEN Raise(w, "ValueError") ELSE update(w, src, n, k)

\* OutputPortInstance.updated_val() / exec(): for cpi in connected_port_instances:
\* cpi.update(), from the j-th (1-based) connection on.
notify(w, o, j) ==
    IF w.exc # "none" \/ j > Len(w.port[o].conn) THEN w
    ELSE notify(port_update(w, o, w.port[o].conn[j]), o, j + 1)

input_rejects_negative(w, n, index) ==
    IF index < 0 \/ index >= Len(w.inputs[n]) THEN [exc |-> "IndexError", val |-> "None"]
    ELSE [exc |-> "none", val |-> get_val(w, w.inputs[n][index + 1])]

\* def input(self, index): return self.inputs[index].get_val()
input(w, n, index) ==
    LET j == PyIndex(Len(w.inputs[n]), index)
    IN  IF j = 0 THEN [exc |-> "IndexError", val |-> "None"]
        ELSE [exc |-> "none", val |-> get_val(w, w.inputs[n][j])]

set_output_val_wrong_index(w, n, index, val) ==
    LET j == PyIndex(Len(w.outputs[n]), index - 1)
    IN  IF j = 0 THEN Raise(w, "IndexError")
        ELSE set_val(w, w.outputs[n][j], val)

\* def set_output_val(self, index, val): self.outputs[index].set_val(val)
set_output_val(w, n, index, val) ==
    LET j == PyIndex(Len(w.outputs[n]), index)
    IN  IF j = 0 THEN Raise(w, "IndexError")
        ELSE set_val(w, w.outputs[n][j], val)

exec_output_first_only(w, n, index) ==
    LET j == PyIndex(Len(w.outputs[n]), index)
    IN  IF j = 0 THEN Raise(w, "IndexError")
        ELSE IF w.port[w.outputs[n][j]].conn = <<>> THEN w
        ELSE port_update(w, w.outputs[n][j], w.port[w.outputs[n][j]].conn[1])

\* def exec_output(self, index): self.outputs[index].exec()
exec_output(w, n, index) ==
    LET j == PyIndex(Len(w.outputs[n]), index)
    IN  IF j = 0 THEN Raise(w, "IndexError")
        ELSE notify(w, w.outputs[n][j], 1)

data_outputs_loop_all(w, n, j) ==
    IF w.exc # "none" \/ j > Len(w.outputs[n]) THEN w
    ELSE data_outputs_loop(notify(w, w.outputs[n][j], 1), n, j + 1)

\* for o in self.outputs: if o.type_ == 'data': o.updated_val()
data_outputs_loop(w, n, j) ==
    IF w.exc # "none" \/ j > Len(w.outputs[n]) THEN w
    ELSE IF w.port[w.outputs[n][j]].type_ = "data"
         THEN data_outputs_loop(notify(w, w.outputs[n][j], 1), n, j + 1)
         ELSE data_outputs_loop(w, n, j + 1)

\* def data_outputs_updated(self)
data_outputs_updated(w, n) == data_outputs_loop(w, n, 1)

\* Node logic: for every data output j: self.set_output_val(j, v)
set_outputs_loop(w, n, j, v) ==
    IF w.exc # "none" \/ j > Len(w.outputs[n]) THEN w
    ELSE IF w.port[w.outputs[n][j]].type_ = "data"
         THEN set_outputs_loop(set_output_val(w, n, j - 1, v), n, j + 1, v)
         ELSE set_outputs_loop(w, n, j + 1, v)

\* Node logic: for every exec output j: self.exec_output(j)
exec_outputs_loop(w, n, j) ==
    IF w.exc # "none" \/ j > Len(w.outputs[n]) THEN w
    ELSE IF w.port[w.outputs[n][j]].type_ = "exec"
         THEN exec_outputs_loop(exec_output(w, n, j - 1), n, j + 1)
         ELSE exec_outputs_loop(w, n, j + 1)

\* The value a node's logic computes: its first input, or a constant for a
\* node without inputs.
Computed(w, n) == IF w.inputs[n] = <<>> THEN "v1" ELSE input(w, n, 0).val

\* Node logic with a programming error: for <<n, op>> in w.bad_index the
\* update_event of n first calls op with the index one past the end of the
\* port list (self.input(len(self.inputs)), self.set_output_val(len(self.outputs), v),
\* self.exec_output(len(self.outputs))).
bad_index_calls(w, n) ==
    LET w1 == IF <<n, "input">> \in w.bad_index
              THEN Raise(w, input(w, n, Len(w.inputs[n])).exc) ELSE w
        w2 == IF w1.exc = "none" /\ <<n, "set_output_val">> \in w.bad_index
              THEN set_output_val(w1, n, Len(w.outputs[n]), "v1") ELSE w1
    IN  IF w2.exc = "none" /\ <<n, "exec_output">> \in w.bad_index
        THEN exec_output(w2, n, Len(w.outputs[n])) ELSE w2

\* update_event as overridden by a node kind: read the inputs, store the data
\* outputs, then propagate (data outputs, then exec outputs).  A node in
\* w.faulty raises after storing its outputs and before propagating.
update_event(w, n, input_called) ==
    LET w0 == bad_index_calls(w, n)
        w1 == set_outputs_loop(w0, n, 1, Computed(w0, n))
    IN  IF w0.exc # "none" THEN w0
        ELSE IF w1.exc # "none" THEN w1
        ELSE IF n \in w.faulty THEN Raise(w1, "NodeFault")
        ELSE exec_outputs_loop(data_outputs_updated(w1, n), n, 1)

update_narrow_except(w, src, n, input_called) ==
    LET w1 == [w EXCEPT !.calls = Append(@, [src |-> src, node |-> n, input_called |-> input_called])]
        w2 == update_event(w1, n, input_called)
    IN  IF w2.exc = "IndexError" THEN [w2 EXCEPT !.exc = "none"] ELSE w2

update_no_try(w, src, n, input_called) ==
    update_event([w EXCEPT !.calls = Append(@, [src |-> src, node |-> n, input_called |-> input_called])],
                 n, input_called)

\* def update(self, input_called=-1): try: self.update_event(input_called)
\*                                     except Exception as e: Debugger.debug(...)
update(w, src, n, input_called) ==
    LET w1 == [w EXCEPT !.calls = Append(@, [src |-> src, node |-> n, input_called |-> input_called])]
        w2 == update_event(w1, n, input_called)
    IN  [w2 EXCEPT !.exc = "none"]

\* ---------------------------------------------------------- port management

create_new_input_appends(w, n, type_, label, widget, pos) ==
    [w EXCEPT !.port = Append(@, NewPort(n, "input", type_, label, widget)),
              !.inputs[n] = Append(@, Len(w.port) + 1)]

\* def create_new_input(self, type_, label, widget_type, ..., pos=-1, config=None)
create_new_input(w, n, type_, label, widget, pos) ==
    LET pi == Len(w.port) + 1
        w1 == [w EXCEPT !.port = Append(@, NewPort(n, "input", type_, label, widget))]
        pos1 == IF pos < -1 THEN pos + Len(w.inputs[n]) ELSE pos
    IN  IF pos1 = -1 THEN [w1 EXCEPT !.inputs[n] = Append(@, pi)]
        ELSE [w1 EXCEPT !.inputs[n] = ListInsert(@, pos1, pi)]

\* def create_new_output(self, type_, label, pos=-1)
create_new_output(w, n, type_, label, pos) ==
    LET pi == Len(w.port) + 1
        w1 == [w EXCEPT !.port = Append(@, NewPort(n, "output", type_, label, ""))]
        pos1 == IF pos < -1 THEN pos + Len(w.outputs[n]) ELSE pos
    IN  IF pos1 = -1 THEN [w1 EXCEPT !.outputs[n] = Append(@, pi)]
        ELSE [w1 EXCEPT !.outputs[n] = ListInsert(@, pos1, pi)]

RECURSIVE disconnect_loop(_, _, _)
\* for cpi in inp.connected_port_instances: self.flow.connect_gates(inp.gate, cpi.gate)
\* The list iterator is at (0-based) position i of the list connect_gates edits.
disconnect_loop(w, p, i) ==
    IF i >= Len(w.port[p].conn) THEN w
    ELSE disconnect_loop(connect_gates(w, p, w.port[p].conn[i + 1]), p, i + 1)

\* A port argument of delete_input / delete_output: an int index or a port instance.
IntRef(i) == [kind |-> "int", v |-> i]
PortRef(p) == [kind |-> "port", v |-> p]

\* The port a delete call works on: 0 with exc set when the lookup raises
\* (IndexError), -1 when the argument is of neither accepted type (None).
resolve(w, list, ref, dir) ==
    IF ref.kind = "int"
    THEN IF PyIndex(Len(list), ref.v) = 0 THEN 0 ELSE list[PyIndex(Len(list), ref.v)]
    ELSE IF w.port[ref.v].direction = dir THEN ref.v ELSE -1

delete_input_unchecked(w, n, i) ==
    LET inp == resolve(w, w.inputs[n], i, "input")
    IN  IF inp = 0 THEN Raise(w, "IndexError")
        ELSE IF inp = -1 THEN Raise(w, "AttributeError")
        ELSE [disconnect_loop(w, inp, 0) EXCEPT !.inputs[n] = ListRemove(@, inp)]

\* def delete_input(self, i)
delete_input(w, n, i) ==
    LET inp == resolve(w, w.inputs[n], i, "input")
        w1 == disconnect_loop(w, inp, 0)
    IN  IF inp = 0 THEN Raise(w, "IndexError")
        ELSE IF inp = -1 THEN Raise(w, "AttributeError")
        ELSE IF ListIndex(w1.inputs[n], inp) < 0 THEN Raise(w1, "ValueError")
        ELSE [w1 EXCEPT !.inputs[n] = ListRemove(@, inp)]

delete_output_removes_last(w, n, o) ==
    LET out == resolve(w, w.outputs[n], o, "output")
        w1 == disconnect_loop(w, out, 0)
    IN  IF out = 0 THEN Raise(w, "IndexError")
        ELSE IF out = -1 THEN Raise(w, "AttributeError")
        ELSE IF ListIndex(w1.outputs[n], out) < 0 THEN Raise(w1, "ValueError")
        ELSE [w1 EXCEPT !.outputs[n] = SubSeq(@, 1, Len(@) - 1)]

\* def delete_output(self, o)
delete_output(w, n, o) ==
    LET out == resolve(w, w.outputs[n], o, "output")
        w1 == disconnect_loop(w, out, 0)
    IN  IF out = 0 THEN Raise(w, "IndexError")
        ELSE IF out = -1 THEN Raise(w, "AttributeError")
        ELSE IF ListIndex(w1.outputs[n], out) < 0 THEN Raise(w1, "ValueError")
        ELSE [w1 EXCEPT !.outputs[n] = ListRemove(@, out)]

\* ----------------------------------------------------------- node kinds

DataIn == [type_ |-> "data", label |-> "a", widget |-> "w"]
ExecIn == [type_ |-> "exec", label |-> "go", widget |-> ""]
DataOut == [type_ |-> "data", label |-> "out", widget |-> ""]
ExecOut == [type_ |-> "exec", label |-> "ex", widget |-> ""]

\* parent_node.inputs / parent_node.outputs of the node kinds: a source, a
\* relay and a sink.
TemplateInputs(kind) == IF kind = "source" THEN <<>> ELSE <<DataIn, ExecIn>>
TemplateOutputs(kind) ==
    IF kind = "source" THEN <<DataOut, ExecOut>>
    ELSE IF kind = "relay" THEN <<DataOut>>
    ELSE <<>>

RECURSIVE template_inputs_loop(_, _, _)
RECURSIVE template_outputs_loop(_, _, _)

\* for i in range(len(self.parent_node.inputs)): self.create_new_input(...)
template_inputs_loop(w, n, i) ==
    LET inp == TemplateInputs(w.parent_node[n])
    IN  IF i > Len(inp) THEN w
        ELSE template_inputs_loop(
                create_new_input(w, n, inp[i].type_, inp[i].label, inp[i].widget, -1), n, i + 1)

\* for o in range(len(self.parent_node.outputs)): self.create_new_output(...)
template_outputs_loop(w, n, o) ==
    LET out == TemplateOutputs(w.parent_node[n])
    IN  IF o > Len(out) THEN w
        ELSE template_outputs_loop(create_new_output(w, n, out[o].type_, out[o].label, -1), n, o + 1)

\* ------------------------------------------------------------ serialization

\* JSON-able values and the objects special_actions holds, tagged by type:
\* "none", "int", "str", "dict" (d: key -> value), "M" (a retained method,
\* s its method_name) and "method" (a bound method, s its __name__).
NoneV == [t |-> "none", s |-> "", d |-> <<>>]
IntV(s) == [t |-> "int", s |-> s, d |-> <<>>]
StrV(s) == [t |-> "str", s |-> s, d |-> <<>>]
Dict(d) == [t |-> "dict", s |-> "", d |-> d]
MObj(name) == [t |-> "M", s |-> name, d |-> <<>>]
Bound(name) == [t |-> "method", s |-> name, d |-> <<>>]
EmptyDict == Dict(<<>>)

\* The methods getattr(self, name) finds on an instance.
InstanceMethods == {"update_shape", "action_exec_input", "action_remove"}

RECURSIVE get_special_actions_data(_)
RECURSIVE set_special_actions_data(_)

\* def get_special_actions_data(self, actions)
get_special_actions_data(actions) ==
    Dict([key \in DOMAIN actions.d |->
            LET v == actions.d[key]
            IN  IF v.t = "M" THEN StrV(v.s)
                ELSE IF v.t = "method" THEN StrV(v.s)
                ELSE IF v.t = "dict" THEN get_special_actions_data(v)
                ELSE v])

\* Python dict objects: heap is the sequence of the dict objects allocated, a
\* dict object maps its keys to leaves or to references to dict objects.
Ref(id) == [t |-> "ref", s |-> "", d |-> <<id>>]

RECURSIVE SetToSeq(_)
\* The keys of a dict in iteration order.
SetToSeq(S) ==
    IF S = {} THEN <<>>
    ELSE LET x == CHOOSE x \in S : TRUE IN <<x>> \o SetToSeq(S \ {x})

RECURSIVE alloc(_, _)
RECURSIVE alloc_keys(_, _, _, _, _)
\* The dict objects of the nested mapping v, allocated in heap h: [h, id].
alloc(h, v) == alloc_keys(h, v, SetToSeq(DOMAIN v.d), 1, <<>>)

alloc_keys(h, v, keys, i, obj) ==
    IF i > Len(keys) THEN [h |-> Append(h, obj), id |-> Len(h) + 1]
    ELSE LET x == v.d[keys[i]]
             c == alloc(h, x)
         IN  IF x.t = "dict"
             THEN alloc_keys(c.h, v, keys, i + 1, (keys[i] :> Ref(c.id)) @@ obj)
             ELSE alloc_keys(h, v, keys, i + 1, (keys[i] :> x) @@ obj)

RECURSIVE FromHeap(_, _)
\* The nested mapping that dict object id of heap h holds.
FromHeap(h, id) ==
    Dict([key \in DOMAIN h[id] |->
            IF h[id][key].t = "ref" THEN FromHeap(h, h[id][key].d[1]) ELSE h[id][key]])

RECURSIVE cleaned_actions(_, _)
RECURSIVE cleaned_actions_in_place(_, _)
RECURSIVE cleaned_actions_loop(_, _, _, _)

\* for key in cleaned_actions: ... cleaned_actions[key] = ..., on dict object
\* cleaned of heap h, from the i-th key on.
cleaned_actions_loop(h, cleaned, keys, i) ==
    IF i > Len(keys) THEN [h |-> h, id |-> cleaned]
    ELSE LET v == h[cleaned][keys[i]]
             sub == cleaned_actions(h, v.d[1])
         IN  IF v.t \in {"M", "method"}
             THEN cleaned_actions_loop([h EXCEPT ![cleaned][keys[i]] = StrV(v.s)],
                                       cleaned, keys, i + 1)
             ELSE IF v.t = "ref"
             THEN cleaned_actions_loop([sub.h EXCEPT ![cleaned][keys[i]] = Ref(sub.id)],
                                       cleaned, keys, i + 1)
             ELSE cleaned_actions_loop(h, cleaned, keys, i + 1)

cleaned_actions_in_place(h, actions) ==
    cleaned_actions_loop(h, actions, SetToSeq(DOMAIN h[actions]), 1)

\* get_special_actions_data on the heap: cleaned_actions = actions.copy(),
\* the loop over its keys, return cleaned_actions: [h, id].
cleaned_actions(h, actions) ==
    cleaned_actions_loop(Append(h, h[actions]), Len(h) + 1, SetToSeq(DOMAIN h[actions]), 1)

\* self.get_special_actions_data(actions) on the live mapping: the mapping
\* afterwards (live) and the mapping returned (data).
Serialize(actions) ==
    LET a == alloc(<<>>, actions)
        r == cleaned_actions(a.h, a.id)
    IN  [live |-> FromHeap(r.h, a.id), data |-> FromHeap(r.h, r.id)]

\* def set_special_actions_data(self, actions_data): [exc, val]
set_special_actions_data(actions_data) ==
    LET d == actions_data.d
        kept == {key \in DOMAIN d : d[key].t = "dict" \/ key \in {"method", "data"}}
        sub(key) == set_special_actions_data(d[key])
        exc(key) ==
            IF d[key].t = "dict" THEN sub(key).exc
            ELSE IF key = "method" /\ d[key].t # "str" THEN "TypeError"
            ELSE IF key = "method" /\ d[key].s \notin InstanceMethods THEN "AttributeError"
            ELSE "none"
        bad == {key \in DOMAIN d : exc(key) # "none"}
    IN  IF bad # {} THEN [exc |-> exc(CHOOSE key \in bad : TRUE), val |-> EmptyDict]
        ELSE [exc |-> "none",
              val |-> Dict([key \in kept |->
                        IF d[key].t = "dict" THEN sub(key).val
                        ELSE IF key = "method" THEN MObj(d[key].s)
                        ELSE d[key]])]

\* PortInstance.get_json_data(): type, label and the input widget's data
\* (widget "" stands for 'has widget': False).
port_json(p) == [type_ |-> p.type_, label |-> p.label, widget |-> p.widget]

\* get_data() / set_data(data) of a node kind that keeps custom state; a new
\* instance starts in DefaultState.
DefaultState == StrV("s0")
get_data(w, n) == w.state[n]
set_data(w, n, data) == [w EXCEPT !.state[n] = data]

\* def get_json_data(self): state data, special actions, inputs, outputs
\* (the node kind identity and the position are left out).
get_json_data(w, n) ==
    [present |-> TRUE,
     state_data |-> get_data(w, n),
     special_actions |-> get_special_actions_data(w.special_actions[n]),
     inputs |-> [i \in 1..Len(w.inputs[n]) |-> port_json(w.port[w.inputs[n][i]])],
     outputs |-> [o \in 1..Len(w.outputs[n]) |-> port_json(w.port[w.outputs[n][o]])]]

\* config=None
NoConfig ==
    [present |-> FALSE, state_data |-> NoneV, special_actions |-> EmptyDict,
     inputs |-> <<>>, outputs |-> <<>>]

RECURSIVE config_inputs_loop(_, _, _, _)
RECURSIVE config_outputs_loop(_, _, _, _)

\* for inp in inputs_config: self.create_new_input(inp['type'], inp['label'], ...)
config_inputs_loop(w, n, inputs_config, i) ==
    IF i > Len(inputs_config) THEN w
    ELSE config_inputs_loop(
            create_new_input(w, n, inputs_config[i].type_, inputs_config[i].label,
                             inputs_config[i].widget, -1), n, inputs_config, i + 1)

\* for out in outputs_config: self.create_new_output(out['type'], out['label'])
config_outputs_loop(w, n, outputs_config, o) ==
    IF o > Len(outputs_config) THEN w
    ELSE config_outputs_loop(
            create_new_output(w, n, outputs_config[o].type_, outputs_config[o].label, -1),
            n, outputs_config, o + 1)

\* def setup_ports(self, inputs_config=None, outputs_config=None); None and the
\* empty list are both falsy and are both written <<>>.
setup_ports(w, n, inputs_config, outputs_config) ==
    IF inputs_config = <<>> /\ outputs_config = <<>>
    THEN template_outputs_loop(template_inputs_loop(w, n, 1), n, 1)
    ELSE config_outputs_loop(config_inputs_loop(w, n, inputs_config, 1), n, outputs_config, 1)

\* NodeInstance(parent_node, flow, config): the instance before initialized().
construct(w, n, kind) ==
    [w EXCEPT !.inputs[n] = <<>>, !.outputs[n] = <<>>, !.parent_node[n] = kind,
              !.special_actions[n] = EmptyDict, !.initializing[n] = TRUE,
              !.state[n] = DefaultState]

initialized_updates_first(w, n, config) ==
    LET w1 == Step(setup_ports(w, n, config.inputs, config.outputs), "setup_ports")
        sa == set_special_actions_data(config.special_actions)
        w2 == IF config.present
              THEN Step([w1 EXCEPT !.special_actions[n] = sa.val], "set_special_actions_data")
              ELSE w1
        w3 == update(Step(w2, "update"), 0, n, -1)
        w4 == IF config.present /\ config.state_data # NoneV
              THEN Step(set_data(w3, n, config.state_data), "set_data") ELSE w3
    IN  IF config.present /\ sa.exc # "none"
        THEN Raise(Step(w1, "set_special_actions_data"), sa.exc)
        ELSE Step([w4 EXCEPT !.initializing[n] = FALSE], "initializing = False")

\* def initialized(self), with self.init_config = config
initialized(w, n, config) ==
    LET w1 == Step(setup_ports(w, n, config.inputs, config.outputs), "setup_ports")
        sa == set_special_actions_data(config.special_actions)
        w2 == IF config.present
              THEN Step([w1 EXCEPT !.special_actions[n] = sa.val], "set_special_actions_data")
              ELSE w1
        temp_state_data == IF config.present THEN config.state_data ELSE NoneV
        w3 == IF temp_state_data # NoneV
              THEN Step(set_data(w2, n, temp_state_data), "set_data") ELSE w2
        w4 == Step([w3 EXCEPT !.initializing[n] = FALSE], "initializing = False")
    IN  IF config.present /\ sa.exc # "none"
        THEN Raise(Step(w1, "set_special_actions_data"), sa.exc)
        ELSE update(Step(w4, "update"), 0, n, -1)

\* ------------------------------------------------------------ the host's calls

NoCall ==
    [op |-> "none", node |-> 0, arg |-> 0, ref |-> "", val |-> "None", faulty |-> {},
     exc |-> "none", calls |-> <<>>, ret |-> "None", config |-> NoConfig, steps |-> <<>>]

\* The node kinds of the flow: a source, relays, and a sink.
KindOf(n) == IF n = 1 THEN "source" ELSE IF n = NumNodes THEN "sink" ELSE "relay"

RECURSIVE BuildFlow(_, _)
\* Every node of the flow constructed without config and initialized, in turn.
BuildFlow(w, n) ==
    IF n > NumNodes THEN w
    ELSE BuildFlow(initialized(construct(w, n, KindOf(n)), n, NoConfig), n + 1)

Blank ==
    [inputs |-> [n \in Nodes |-> <<>>], outputs |-> [n \in Nodes |-> <<>>], port |-> <<>>,
     parent_node |-> [n \in Nodes |-> KindOf(n)], initializing |-> [n \in Nodes |-> TRUE],
     special_actions |-> [n \in Nodes |-> EmptyDict], state |-> [n \in Nodes |-> DefaultState],
     calls |-> <<>>, exc |-> "none", faulty |-> {}, bad_index |-> {},
     steps |-> <<>>]

InitWorld(w) ==
    /\ inputs = w.inputs
    /\ outputs = w.outputs
    /\ port = w.port
    /\ parent_node = w.parent_node
    /\ initializing = w.initializing
    /\ special_actions = w.special_actions
    /\ state = w.state

Init ==
    /\ InitWorld(BuildFlow(Blank, 1))
    /\ saved = NoConfig
    /\ last = NoCall

Ports == 1..Len(port)
\* The ports node logic created after the instances were set up.
NewPorts == {p \in Ports : port[p].label = "new"}
Attached(p) ==
    \/ ListIndex(inputs[port[p].owner], p) >= 0
    \/ ListIndex(outputs[port[p].owner], p) >= 0

\* The user connects (or, when connected, disconnects) an output and an input
\* of the same type on two different nodes, downstream only; a data input
\* takes one connection.
Connect(a, b) ==
    /\ last = NoCall
    /\ Attached(a) /\ Attached(b)
    /\ port[a].direction = "output" /\ port[b].direction = "input"
    /\ port[a].type_ = port[b].type_
    /\ port[a].owner < port[b].owner
    /\ \/ ListIndex(port[a].conn, b) >= 0
       \/ port[b].type_ = "exec"
       \/ port[b].conn = <<>>
    /\ Commit(connect_gates(World, a, b))
    /\ UNCHANGED <<saved, last>>

CreateNewInput(n, type_, pos) ==
    /\ last = NoCall
    /\ Cardinality(NewPorts) < MaxNewPorts
    /\ Commit(create_new_input(World, n, type_, "new", IF type_ = "data" THEN "w" ELSE "", pos))
    /\ last' = [NoCall EXCEPT !.op = "create_new_input", !.node = n, !.arg = pos]
    /\ UNCHANGED saved

CreateNewOutput(n, type_, pos) ==
    /\ last = NoCall
    /\ Cardinality(NewPorts) < MaxNewPorts
    /\ Commit(create_new_output(World, n, type_, "new", pos))
    /\ last' = [NoCall EXCEPT !.op = "create_new_output", !.node = n, !.arg = pos]
    /\ UNCHANGED saved

Outcome(op, n, arg, w) ==
    [NoCall EXCEPT !.op = op, !.node = n, !.arg = arg, !.faulty = w.faulty,
                   !.exc = w.exc, !.calls = w.calls, !.steps = w.steps]

\* ni.update(input_called), while the update_event of the nodes in F raises.
Update(n, input_called, F) ==
    LET w == update([World EXCEPT !.faulty = F], 0, n, input_called)
    IN  /\ last = NoCall
        /\ Commit(w)
        /\ last' = Outcome("update", n, input_called, w)
        /\ UNCHANGED saved

\* ni.exec_output(index)
ExecOutput(n, index, F) ==
    LET w == exec_output([World EXCEPT !.faulty = F], n, index)
    IN  /\ last = NoCall
        /\ Commit(w)
        /\ last' = Outcome("exec_output", n, index, w)
        /\ UNCHANGED saved

\* ni.set_output_val(index, val)
SetOutputVal(n, index, val) ==
    LET w == set_output_val(World, n, index, val)
    IN  /\ last = NoCall
        /\ Commit(w)
        /\ last' = [Outcome("set_output_val", n, index, w) EXCEPT !.val = val]
        /\ UNCHANGED saved

\* ni.data_outputs_updated(), possibly right after a ni.set_output_val(index, val)
\* that returned normally (whose index and val the outcome then keeps).
DataOutputsUpdated(n, F) ==
    LET w == data_outputs_updated([World EXCEPT !.faulty = F], n)
        after_set == last.op = "set_output_val" /\ last.node = n /\ last.exc = "none"
    IN  /\ last = NoCall \/ after_set
        /\ Commit(w)
        /\ last' = [Outcome("data_outputs_updated", n, IF after_set THEN last.arg ELSE 0, w)
                        EXCEPT !.val = IF after_set THEN last.val ELSE "None"]
        /\ UNCHANGED saved

\* ni.input(index)
Input(n, index) ==
    LET r == input(World, n, index)
    IN  /\ last = NoCall
        /\ last' = [NoCall EXCEPT !.op = "input", !.node = n, !.arg = index,
                                  !.exc = r.exc, !.ret = r.val]
        /\ UNCHANGED <<inputs, outputs, port, parent_node, initializing, special_actions, state, saved>>

\* The indices of the data ports of a list, and the first index past its end.
DataIndices(list) == {j \in 0..Len(list) : j = Len(list) \/ port[list[j + 1]].type_ = "data"}

\* The host takes the outcome of its last call and goes on.
Return ==
    /\ last # NoCall
    /\ last' = NoCall
    /\ UNCHANGED <<inputs, outputs, port, parent_node, initializing, special_actions, state, saved>>

Indices(list) == (0 - Len(list) - 1)..Len(list)

\* The sets of nodes whose update_event raises during one propagation from n.
Faults(from) == SUBSET {m \in Nodes : m >= from}

Next ==
    \/ \E a, b \in Ports : Connect(a, b)
    \/ \E n \in Nodes : \E F \in Faults(n), k \in -1..(Len(inputs[n]) - 1) : Update(n, k, F)
    \/ \E n \in Nodes : \E F \in Faults(n + 1), index \in 0..Len(outputs[n]) : ExecOutput(n, index, F)
    \/ \E n \in Nodes, val \in Vals : \E index \in DataIndices(outputs[n]) : SetOutputVal(n, index, val)
    \/ \E n \in Nodes : \E F \in Faults(n + 1) : DataOutputsUpdated(n, F)
    \/ \E n \in Nodes : \E index \in Indices(inputs[n]) : Input(n, index)
    \/ Return

Spec == Init /\ [][Next]_vars

\* The accessors of the ports by index.
IndexedCalls == {"input", "set_output_val", "exec_output"}

\* ni.update() on a node whose update_event calls op with an index out of range.
UpdateBadIndex(n, op) ==
    LET w == update([World EXCEPT !.bad_index = {<<n, op>>}], 0, n, -1)
    IN  /\ last = NoCall
        /\ Commit(w)
        /\ last' = [Outcome("update", n, -1, w) EXCEPT !.ref = op]
        /\ UNCHANGED saved

\* The accessors called with any index, directly and from inside update_event.
NextIndex ==
    \/ \E a, b \in Ports : Connect(a, b)
    \/ \E n \in Nodes, op \in IndexedCalls : UpdateBadIndex(n, op)
    \/ \E n \in Nodes : \E index \in Indices(inputs[n]) : Input(n, index)
    \/ \E n \in Nodes, val \in Vals : \E index \in Indices(outputs[n]) : SetOutputVal(n, index, val)
    \/ \E n \in Nodes : \E index \in Indices(outputs[n]) : ExecOutput(n, index, {})
    \/ Return

SpecIndex == Init /\ [][NextIndex]_vars

\* The ports deleted so far: constructed, and in no node's list any more.
Deleted == {p \in Ports : ~Attached(p)}

\* ni.delete_input(i), i an index or a port instance
DeleteInput(n, i) ==
    LET w == delete_input(World, n, i)
    IN  /\ last = NoCall
        /\ Cardinality(Deleted) < MaxDeletes
        /\ Commit(w)
        /\ last' = [Outcome("delete_input", n, i.v, w) EXCEPT !.ref = i.kind]
        /\ UNCHANGED saved

\* ni.delete_output(o), o an index or a port instance
DeleteOutput(n, o) ==
    LET w == delete_output(World, n, o)
    IN  /\ last = NoCall
        /\ Cardinality(Deleted) < MaxDeletes
        /\ Commit(w)
        /\ last' = [Outcome("delete_output", n, o.v, w) EXCEPT !.ref = o.kind]
        /\ UNCHANGED saved

\* The arguments of a delete call on a port list: every index from one below
\* the list to one past it, and every port instance of the flow.
Refs(list) == {IntRef(i) : i \in Indices(list)} \cup {PortRef(p) : p \in Ports}

\* Port management: the user wires the flow while node logic creates and
\* deletes ports.
NextPorts ==
    \/ \E a, b \in Ports : Connect(a, b)
    \/ \E n \in Nodes, type_ \in {"data", "exec"}, pos \in {-1, 0} : CreateNewInput(n, type_, pos)
    \/ \E n \in Nodes, type_ \in {"data", "exec"}, pos \in {-1, 0} : CreateNewOutput(n, type_, pos)
    \/ \E n \in Nodes : \E i \in Refs(inputs[n]) : DeleteInput(n, i)
    \/ \E n \in Nodes : \E o \in Refs(outputs[n]) : DeleteOutput(n, o)
    \/ Return

SpecPorts == Init /\ [][NextPorts]_vars

\* The positions passed to create_new_input / create_new_output for a list:
\* from below twice its negated length to one past its end.
Positions(list) == (0 - 2 * Len(list) - 2)..(Len(list) + 1)

\* Node logic creates ports at any position of the port lists.
NextCreate ==
    \/ \E n \in Nodes, type_ \in {"data", "exec"} : \E pos \in Positions(inputs[n]) :
            CreateNewInput(n, type_, pos)
    \/ \E n \in Nodes, type_ \in {"data", "exec"} : \E pos \in Positions(outputs[n]) :
            CreateNewOutput(n, type_, pos)
    \/ Return

SpecCreate == Init /\ [][NextCreate]_vars

\* parent_node.has_main_widget: the relay kind has a main widget.
HasMainWidget(kind) == kind = "relay"

about_to_remove_hook_first(w, n) ==
    LET w1 == Step(w, "removing")
    IN  Step(IF HasMainWidget(w.parent_node[n]) THEN Step(w1, "main_widget.removing") ELSE w1,
             "disable_personal_logs")

\* def about_to_remove_from_scene(self)
about_to_remove_from_scene(w, n) ==
    LET w1 == IF HasMainWidget(w.parent_node[n]) THEN Step(w, "main_widget.removing") ELSE w
    IN  Step(Step(w1, "removing"), "disable_personal_logs")

\* ni.about_to_remove_from_scene(), called by the flow when it removes ni.
AboutToRemoveFromScene(n) ==
    LET w == about_to_remove_from_scene(World, n)
    IN  /\ last = NoCall
        /\ Commit(w)
        /\ last' = Outcome("about_to_remove_from_scene", n, 0, w)
        /\ UNCHANGED saved

\* The flow removes instances of a wired flow.
NextRemove ==
    \/ \E a, b \in Ports : Connect(a, b)
    \/ \E n \in Nodes : AboutToRemoveFromScene(n)
    \/ Return

SpecRemove == Init /\ [][NextRemove]_vars

\* Node logic adds an output to a wired flow and announces its data outputs.
NextNotify ==
    \/ \E a, b \in Ports : Connect(a, b)
    \/ \E n \in Nodes, type_ \in {"data", "exec"}, pos \in {-1, 0} : CreateNewOutput(n, type_, pos)
    \/ \E n \in Nodes : \E F \in Faults(n + 1) : DataOutputsUpdated(n, F)
    \/ Return

SpecNotify == Init /\ [][NextNotify]_vars

\* --------------------------------------------------------- save and restore

\* special_actions mappings a node kind assigns: empty; a leaf without data;
\* a leaf with an int payload (as default_actions['remove']); a leaf whose
\* payload is a mapping (as 'exec input N'); a submenu of two leaves.
SpecialActions ==
    {EmptyDict,
     Dict("shape" :> Dict("method" :> MObj("update_shape"))),
     Dict("remove" :> Dict(("method" :> Bound("action_remove")) @@ ("data" :> IntV("123")))),
     Dict("exec input 0" :> Dict(("method" :> MObj("action_exec_input"))
                                 @@ ("data" :> Dict("input index" :> IntV("0"))))),
     Dict("menu" :> Dict(("shape" :> Dict("method" :> MObj("update_shape")))
                         @@ ("remove" :> Dict(("method" :> MObj("action_remove"))
                                              @@ ("data" :> StrV("x"))))))}

\* The 'special actions' of descriptions saved by earlier versions of the node
\* kind: what the mappings above serialize to, and mappings naming a method
\* ("action_gone") that the instance no longer has.
OldSpecialActions ==
    {get_special_actions_data(a) : a \in SpecialActions}
    \cup {Dict("gone" :> Dict(("method" :> StrV("action_gone")) @@ ("data" :> IntV("1")))),
          Dict(("shape" :> Dict("method" :> StrV("update_shape")))
               @@ ("gone" :> Dict("method" :> StrV("action_gone"))))}

\* Descriptions saved by earlier versions of the node kind, whose ports differ
\* from the current template's.
OldDescriptions ==
    [present : {TRUE},
     state_data : {StrV("s1")},
     special_actions : OldSpecialActions,
     inputs : {<<>>, <<DataIn>>, <<ExecIn, DataIn>>},
     outputs : {<<>>, <<ExecOut>>}]

\* No instance was constructed for slot n yet: no port belongs to it.
Unconstructed(n) == \A p \in Ports : port[p].owner # n

\* Only the original instance is alive: nothing was restored yet.
OnlyOriginal == Cardinality({m \in Nodes : ~Unconstructed(m)}) = 1

\* x is being edited: it is Ready, and nothing was saved or restored yet.
Editing(n) == ~initializing[n] /\ saved = NoConfig /\ OnlyOriginal

\* Node logic assigns self.special_actions.
SetSpecialActions(n, actions) ==
    /\ last = NoCall
    /\ Editing(n)
    /\ special_actions[n] # actions
    /\ special_actions' = [special_actions EXCEPT ![n] = actions]
    /\ UNCHANGED <<inputs, outputs, port, parent_node, initializing, state, saved, last>>

\* Node logic changes the custom state that get_data returns.
SetState(n, data) ==
    /\ last = NoCall
    /\ Editing(n)
    /\ state[n] # data
    /\ state' = [state EXCEPT ![n] = data]
    /\ UNCHANGED <<inputs, outputs, port, parent_node, initializing, special_actions, saved, last>>

\* ni.get_json_data(): the flow saves the instance.
GetJsonData(n) ==
    /\ last = NoCall
    /\ Editing(n)
    /\ saved' = [get_json_data(World, n) EXCEPT
                    !.special_actions = Serialize(special_actions[n]).data]
    /\ special_actions' = [special_actions EXCEPT ![n] = Serialize(special_actions[n]).live]
    /\ last' = [NoCall EXCEPT !.op = "get_json_data", !.node = n, !.config = saved']
    /\ UNCHANGED <<inputs, outputs, port, parent_node, initializing, state>>

\* The flow restores an instance: NodeInstance(parent_node, flow, config) of
\* the kind of the original, then initialized().
Load(n, config) ==
    LET w == initialized(construct(World, n, parent_node[n]), n, config)
    IN  /\ last = NoCall
        /\ Unconstructed(n)
        /\ OnlyOriginal
        /\ config.present
        /\ Commit(w)
        /\ last' = [Outcome("load", n, 0, w) EXCEPT !.config = config]
        /\ UNCHANGED saved

\* The flow places a new instance: NodeInstance(parent_node, flow) without
\* config, then initialized().
New(n) ==
    LET w == initialized(construct(World, n, parent_node[n]), n, NoConfig)
    IN  /\ last = NoCall
        /\ Unconstructed(n)
        /\ OnlyOriginal
        /\ Commit(w)
        /\ last' = Outcome("new", n, 0, w)
        /\ UNCHANGED saved

NextLoad ==
    \/ \E n \in Nodes, type_ \in {"data", "exec"}, pos \in {-1, 0} :
            Editing(n) /\ CreateNewInput(n, type_, pos)
    \/ \E n \in Nodes, type_ \in {"data", "exec"}, pos \in {-1, 0} :
            Editing(n) /\ CreateNewOutput(n, type_, pos)
    \/ \E n \in Nodes : \E i \in 0..(Len(inputs[n]) - 1) : Editing(n) /\ DeleteInput(n, IntRef(i))
    \/ \E n \in Nodes : \E o \in 0..(Len(outputs[n]) - 1) : Editing(n) /\ DeleteOutput(n, IntRef(o))
    \/ \E n \in Nodes, actions \in SpecialActions : SetSpecialActions(n, actions)
    \/ \E n \in Nodes, data \in {DefaultState, StrV("s1")} : SetState(n, data)
    \/ \E n \in Nodes : GetJsonData(n)
    \/ \E n \in Nodes : Load(n, saved)
    \/ \E n \in Nodes, config \in OldDescriptions : Load(n, config)
    \/ \E n \in Nodes : New(n)
    \/ Return

\* One instance of the relay kind, constructed without config and initialized;
\* the other instances of the kind are not constructed yet.
InitLoad ==
    /\ InitWorld(initialized(construct([Blank EXCEPT !.parent_node = [n \in Nodes |-> "relay"]],
                                       1, "relay"), 1, NoConfig))
    /\ saved = NoConfig
    /\ last = NoCall

SpecLoad == InitLoad /\ [][NextLoad]_vars

\* ------------------------------------------------------------------ claims

\* The invocation of node's update with input_called = k, made by output port src.
Invocation(src, node, k) == [src |-> src, node |-> node, input_called |-> k]

\* The update invocations of the last call that output port o made itself.
DirectCalls(o) == SelectSeq(last.calls, LAMBDA e : e.src = o)

\* Every input connected to output o had its owner updated by o, with the
\* index of that input in the owner's inputs list.
FanOutComplete(o) ==
    \A j \in 1..Len(port[o].conn) :
        LET i == port[o].conn[j]
        IN  \E h \in 1..Len(last.calls) :
                last.calls[h] = Invocation(o, port[i].owner, ListIndex(inputs[port[i].owner], i))

DataOutputsOf(n) == {outputs[n][j] : j \in {h \in 1..Len(outputs[n]) : port[outputs[n][h]].type_ = "data"}}
OutputsOf(n) == {outputs[n][j] : j \in 1..Len(outputs[n])}

\* C1: update(input_called) returns normally to its caller whichever nodes'
\* update_event raise, and a node whose update_event raised after storing
\* its data outputs keeps the stored values.
C1_UpdateNeverRaises ==
    last.op = "update" =>
        /\ last.exc = "none"
        /\ last.node \in last.faulty =>
                \A o \in DataOutputsOf(last.node) : port[o].val = Computed(World, last.node)

\* C1 witness: an update of a relay whose update_event raised after it had
\* stored the value read from its connected input.
C1_Witness ==
    /\ last.op = "update"
    /\ last.node \in last.faulty
    /\ inputs[last.node] # <<>>
    /\ port[inputs[last.node][1]].conn # <<>>
    /\ \E o \in DataOutputsOf(last.node) : port[o].val = "v2"

\* C2: in a propagation started by update, data_outputs_updated or
\* exec_output, every input connected to a notified output has its owner
\* updated, and every updated node whose own update_event does not raise
\* completes its propagation, whichever other nodes' update_event raise.
C2_FaultIsolation ==
    /\ last.op = "exec_output" /\ PyIndex(Len(outputs[last.node]), last.arg) # 0 =>
            /\ last.exc = "none"
            /\ FanOutComplete(outputs[last.node][PyIndex(Len(outputs[last.node]), last.arg)])
    /\ last.op = "data_outputs_updated" =>
            /\ last.exc = "none"
            /\ \A o \in DataOutputsOf(last.node) : FanOutComplete(o)
    /\ last.op \in {"update", "exec_output", "data_outputs_updated"} =>
            \A h \in 1..Len(last.calls) :
                last.calls[h].node \notin last.faulty =>
                    \A o \in OutputsOf(last.calls[h].node) : FanOutComplete(o)

\* C2 witness: an output with two connections whose first notified node raised
\* while the second, notified after it, propagated to a node of its own.
C2_Witness ==
    /\ last.op \in {"exec_output", "data_outputs_updated"}
    /\ \E o \in OutputsOf(last.node) :
        /\ Len(port[o].conn) = 2
        /\ port[port[o].conn[1]].owner \in last.faulty
        /\ port[port[o].conn[2]].owner \notin last.faulty
        /\ Len(DirectCalls(o)) = 2
        /\ \E o2 \in OutputsOf(port[port[o].conn[2]].owner) :
                port[o2].conn # <<>> /\ Len(DirectCalls(o2)) = Len(port[o2].conn)

\* C3: exec_output(index) on an exec output connected to N inputs makes
\* exactly N update invocations itself, one for each connected input, on that
\* input's owner and with that input's index in the owner's inputs list.
C3_ExecOutputFanOut ==
    last.op = "exec_output" /\ PyIndex(Len(outputs[last.node]), last.arg) # 0 =>
        LET o == outputs[last.node][PyIndex(Len(outputs[last.node]), last.arg)]
        IN  port[o].type_ = "exec" =>
                /\ Len(DirectCalls(o)) = Len(port[o].conn)
                /\ \A j \in 1..Len(port[o].conn) :
                      LET i == port[o].conn[j]
                          e == Invocation(o, port[i].owner, ListIndex(inputs[port[i].owner], i))
                      IN  Cardinality({h \in 1..Len(DirectCalls(o)) : DirectCalls(o)[h] = e}) = 1
                /\ \A h \in 1..Len(last.calls) :
                      last.calls[h].src = 0 \/ port[last.calls[h].src].owner # last.node
                          \/ last.calls[h].src = o

\* C3 witness: exec_output on an exec output with two connected inputs.
C3_Witness ==
    /\ last.op = "exec_output"
    /\ last.exc = "none"
    /\ PyIndex(Len(outputs[last.node]), last.arg) # 0
    /\ port[outputs[last.node][PyIndex(Len(outputs[last.node]), last.arg)]].type_ = "exec"
    /\ Len(port[outputs[last.node][PyIndex(Len(outputs[last.node]), last.arg)]].conn) = 2

\* C4: after set_output_val(index, v) and data_outputs_updated() on a node,
\* input() on every data input connected to that output returns v; input()
\* on an unconnected data input returns its widget's value; set_output_val
\* alone invokes no update.
C4_DataReachesInputs ==
    /\ last.op = "data_outputs_updated" /\ last.val # "None"
            /\ PyIndex(Len(outputs[last.node]), last.arg) # 0 =>
            LET o == outputs[last.node][PyIndex(Len(outputs[last.node]), last.arg)]
            IN  \A j \in 1..Len(port[o].conn) :
                    LET i == port[o].conn[j]
                    IN  input(World, port[i].owner, ListIndex(inputs[port[i].owner], i))
                            = [exc |-> "none", val |-> last.val]
    /\ last.op = "input" /\ PyIndex(Len(inputs[last.node]), last.arg) # 0 =>
            LET i == inputs[last.node][PyIndex(Len(inputs[last.node]), last.arg)]
            IN  port[i].type_ = "data" /\ port[i].conn = <<>> => last.ret = port[i].widget
    /\ last.op = "set_output_val" => last.calls = <<>>

\* C4 witness: data_outputs_updated after set_output_val(index, "v2") on an
\* output with a connected data input.
C4_Witness ==
    /\ last.op = "data_outputs_updated"
    /\ last.val = "v2"
    /\ port[outputs[last.node][PyIndex(Len(outputs[last.node]), last.arg)]].conn # <<>>
    /\ last.calls # <<>>

\* C10 as claimed: input(i) returns the value of the input port at position i
\* for 0 <= i < len(inputs), and raises an out-of-range error for every other
\* integer, every negative one included.
C10_AsClaimed ==
    last.op = "input" =>
        IF 0 <= last.arg /\ last.arg < Len(inputs[last.node])
        THEN last.exc = "none" /\ last.ret = get_val(World, inputs[last.node][last.arg + 1])
        ELSE last.exc = "IndexError"

\* C10 amended: input(i) returns the value of the input port at position i for
\* 0 <= i < len(inputs) and of the port at position len(inputs) + i for
\* -len(inputs) <= i < 0, and raises an out-of-range error for every other i.
C10_InputIndex ==
    last.op = "input" =>
        LET len == Len(inputs[last.node])
        IN  IF 0 <= last.arg /\ last.arg < len
            THEN last.exc = "none" /\ last.ret = get_val(World, inputs[last.node][last.arg + 1])
            ELSE IF 0 - len <= last.arg /\ last.arg < 0
            THEN last.exc = "none" /\ last.ret = get_val(World, inputs[last.node][len + last.arg + 1])
            ELSE last.exc = "IndexError"

\* C10 witness: input() with a negative index that returned the value of a
\* connected input.
C10_Witness ==
    /\ last.op = "input"
    /\ last.arg < 0
    /\ last.exc = "none"
    /\ last.ret \in Vals

\* C5 as claimed: no port in a node's inputs or outputs list holds, in its
\* connected_port_instances, a port that is in no node's list any more.
C5_NoDanglingConnection ==
    \A p \in Ports : Attached(p) =>
        \A j \in 1..Len(port[p].conn) : Attached(port[p].conn[j])

\* The instance the last load restored has the ports that config lists.
PortsAsListed(n, config) ==
    /\ get_json_data(World, n).inputs = config.inputs
    /\ get_json_data(World, n).outputs = config.outputs

\* C6 as claimed: an instance restored from a description has exactly the
\* ports the description lists, in the listed order, with the listed types
\* and labels, also when both lists are empty and the template defines ports.
C6_PortsFromDescription ==
    last.op = "load" => PortsAsListed(last.node, last.config)

\* The instance restored last was restored from what get_json_data returned
\* for the original instance.
RestoredFromSaved == last.op = "load" /\ saved.present /\ last.config = saved

\* C7 as claimed: an instance restored from x.get_json_data() returns, from
\* its own get_json_data(), the same state data, special actions and ordered
\* input and output descriptions.
C7_RoundTrip ==
    RestoredFromSaved => last.exc = "none" /\ get_json_data(World, last.node) = saved

RECURSIVE SameActions(_, _)
\* Mapping b has the keys and nesting of special_actions mapping a, the same
\* methods by name under 'method' and the same payloads under 'data'.
SameActions(a, b) ==
    /\ b.t = "dict"
    /\ DOMAIN b.d = DOMAIN a.d
    /\ \A key \in DOMAIN a.d :
          IF key = "data" THEN b.d[key] = a.d[key]
          ELSE IF a.d[key].t = "dict" THEN SameActions(a.d[key], b.d[key])
          ELSE b.d[key].t \in {"M", "method"} /\ b.d[key].s = a.d[key].s

\* C8 as claimed: set_special_actions_data(get_special_actions_data(A)) has
\* the keys and nesting of A, resolves every leaf's method to the method of
\* the same name, and keeps every leaf's data payload unchanged, a payload
\* that is itself a mapping included.
C8_ActionsPreserved ==
    RestoredFromSaved =>
        \A x \in Nodes : x # last.node /\ ~initializing[x] =>
            LET restored == set_special_actions_data(get_special_actions_data(special_actions[x]))
            IN  /\ restored.exc = "none"
                /\ SameActions(special_actions[x], restored.val)
                /\ special_actions[last.node] = restored.val

RECURSIVE NamesMissingMethod(_)
\* Serialized special actions that name a method the instance does not have.
NamesMissingMethod(actions_data) ==
    \E key \in DOMAIN actions_data.d :
        LET v == actions_data.d[key]
        IN  IF v.t = "dict" THEN NamesMissingMethod(v)
            ELSE key = "method" /\ v.t = "str" /\ v.s \notin InstanceMethods

\* C9 as claimed: loading a description whose special actions name a method
\* the instance does not have completes: the ports are restored, the custom
\* state is applied with set_data, and the initializing flag is cleared.
C9_LoadRecovers ==
    last.op = "load" /\ NamesMissingMethod(last.config.special_actions) =>
        /\ last.exc = "none"
        /\ last.config.inputs # <<>> \/ last.config.outputs # <<>> =>
                PortsAsListed(last.node, last.config)
        /\ state[last.node] = last.config.state_data
        /\ ~initializing[last.node]

\* The last call passed an index outside -len..len-1 to an accessor of list.
OutOfRange(op, list) == last.op = op /\ last.ref = "" /\ PyIndex(Len(list), last.arg) = 0

\* C11 as claimed: an out-of-range index passed to input, set_output_val or
\* exec_output raises an error that reaches the calling code, both when the
\* call is made on the instance directly and when update_event makes it
\* during an update.
C11_IndexErrorPropagates ==
    /\ \A n \in Nodes :
          /\ last.node = n /\ OutOfRange("input", inputs[n]) => last.exc = "IndexError"
          /\ last.node = n /\ OutOfRange("set_output_val", outputs[n]) => last.exc = "IndexError"
          /\ last.node = n /\ OutOfRange("exec_output", outputs[n]) => last.exc = "IndexError"
    /\ last.op = "update" /\ last.ref \in IndexedCalls => last.exc = "IndexError"

\* A call of create_new_input / create_new_output is taking place.
Creating == last = NoCall /\ last'.op \in {"create_new_input", "create_new_output"}

\* The list the call in progress inserts into, before and after, and the
\* other direction's list of the same node, before and after.
CreateOld == IF last'.op = "create_new_input" THEN inputs[last'.node] ELSE outputs[last'.node]
CreateNew == IF last'.op = "create_new_input" THEN inputs'[last'.node] ELSE outputs'[last'.node]
OtherOld == IF last'.op = "create_new_input" THEN outputs[last'.node] ELSE inputs[last'.node]
OtherNew == IF last'.op = "create_new_input" THEN outputs'[last'.node] ELSE inputs'[last'.node]

\* new is old with port pi put at (0-based) index q: the ports below q keep
\* their index, the ports from q on move up by one.
PlacedAt(old, new, q, pi) ==
    /\ Len(new) = Len(old) + 1
    /\ new[q + 1] = pi
    /\ \A j \in 0..(Len(old) - 1) : IF j < q THEN new[j + 1] = old[j + 1] ELSE new[j + 2] = old[j + 1]

\* C12: create_new_input / create_new_output with position p, 0 <= p <= n,
\* puts the new port at index p, keeps the ports below p and moves the ports
\* from p on up by one; with position -1 the port is appended at index n; the
\* list grows by one and the other direction's list does not change.
C12_CreateAtPosition ==
    [][Creating /\ -1 <= last'.arg /\ last'.arg <= Len(CreateOld) =>
            /\ PlacedAt(CreateOld, CreateNew,
                        IF last'.arg = -1 THEN Len(CreateOld) ELSE last'.arg, Len(port'))
            /\ Len(port') = Len(port) + 1
            /\ OtherNew = OtherOld]_vars

\* C12 witness: a port created at position 1 of a list of two ports, between them.
C12_Witness ==
    /\ last.op \in {"create_new_input", "create_new_output"}
    /\ last.arg = 1
    /\ LET list == IF last.op = "create_new_input" THEN inputs[last.node] ELSE outputs[last.node]
       IN  Len(list) = 3 /\ list[2] = Len(port) /\ port[list[2]].label = "new"

\* A call of delete_input / delete_output is taking place.
Deleting == last = NoCall /\ last'.op \in {"delete_input", "delete_output"}

\* The call in progress was given a port instance that is not in the port
\* list of the instance it is called on.
ForeignRef ==
    /\ last'.ref = "port"
    /\ ListIndex(IF last'.op = "delete_input" THEN inputs[last'.node] ELSE outputs[last'.node],
                 last'.arg) < 0

\* C13: delete_input / delete_output with a port reference that does not
\* belong to this instance raises an invalid-reference error to the caller
\* and removes no port from this instance.
C13_ForeignRefRejected ==
    [][Deleting /\ ForeignRef =>
            /\ last'.exc \in {"ValueError", "AttributeError"}
            /\ inputs'[last'.node] = inputs[last'.node]
            /\ outputs'[last'.node] = outputs[last'.node]]_vars

\* C13 witness: delete_input on one node with a connected input of another
\* node ended with ValueError.
C13_Witness ==
    /\ last.op = "delete_input"
    /\ last.ref = "port"
    /\ last.exc = "ValueError"
    /\ port[last.arg].owner # last.node
    /\ Attached(last.arg)
    /\ inputs[last.node] # <<>>

\* The list the delete call in progress works on, before and after, and the
\* other direction's list of the same node, before and after.
DeleteOld == IF last'.op = "delete_input" THEN inputs[last'.node] ELSE outputs[last'.node]
DeleteNew == IF last'.op = "delete_input" THEN inputs'[last'.node] ELSE outputs'[last'.node]
KeptOld == IF last'.op = "delete_input" THEN outputs[last'.node] ELSE inputs[last'.node]
KeptNew == IF last'.op = "delete_input" THEN outputs'[last'.node] ELSE inputs'[last'.node]

\* C14: delete_input(k) / delete_output(k) with 0 <= k < n removes exactly the
\* port at index k: the list shrinks by one, the ports below k keep their
\* index, and every port at an index j > k is afterwards at index j - 1.
C14_DeleteAtIndex ==
    [][Deleting /\ last'.ref = "int" /\ 0 <= last'.arg /\ last'.arg < Len(DeleteOld) =>
            /\ last'.exc = "none"
            /\ PlacedAt(DeleteNew, DeleteOld, last'.arg, DeleteOld[last'.arg + 1])
            /\ \A j \in 1..Len(DeleteNew) : DeleteNew[j] # DeleteOld[last'.arg + 1]
            /\ KeptNew = KeptOld]_vars

\* C14 witness: index 0 of a three-port list was deleted, and the two ports
\* left are a template port and the port node logic had created.
C14_Witness ==
    /\ last.op \in {"delete_input", "delete_output"}
    /\ last.ref = "int" /\ last.arg = 0 /\ last.exc = "none"
    /\ LET list == IF last.op = "delete_input" THEN inputs[last.node] ELSE outputs[last.node]
       IN  Len(list) = 2 /\ port[list[2]].label = "new"

\* Statement a of initialized() was executed, and statement b after it.
Before(a, b) ==
    \E i, j \in 1..Len(last.steps) : i < j /\ last.steps[i] = a /\ last.steps[j] = b

\* C15 as claimed: restoring from a description reconstructs the ports, then
\* applies the custom state with set_data, and only then resolves the
\* special_actions method names.
C15_RestoreOrder ==
    last.op = "load" /\ last.exc = "none" =>
        /\ Before("setup_ports", "set_data")
        /\ Before("set_data", "set_special_actions_data")

\* The update invocations of the last call on its own node.
OwnUpdates == SelectSeq(last.calls, LAMBDA e : e.node = last.node)

\* initialized() returned normally: the flag was cleared once, after the ports
\* were set up and the custom state restored, and update ran once, after
\* that, with input_called = -1.
ReadyOnce ==
    /\ ~initializing[last.node]
    /\ Cardinality({i \in 1..Len(last.steps) : last.steps[i] = "initializing = False"}) = 1
    /\ Before("setup_ports", "initializing = False")
    /\ last.op = "load" => Before("set_data", "initializing = False")
                            /\ state[last.node] = last.config.state_data
    /\ Before("initializing = False", "update")
    /\ OwnUpdates = <<Invocation(0, last.node, -1)>>

\* initialized() raised: the flag is still set and update was not invoked.
StillInitializing ==
    /\ initializing[last.node]
    /\ \A i \in 1..Len(last.steps) : last.steps[i] \notin {"initializing = False", "update"}
    /\ last.calls = <<>>

Notifications == SelectSeq(last.calls, LAMBDA e : e.src \in OutputsOf(last.node))

\* All the connections of node m's inputs are to exec outputs of the node
\* of the last call.
ExecOnly(m) ==
    \A j \in 1..Len(inputs[m]) : \A h \in 1..Len(port[inputs[m][j]].conn) :
        /\ port[port[inputs[m][j]].conn[h]].type_ = "exec"
        /\ port[port[inputs[m][j]].conn[h]].owner = last.node

\* C17: data_outputs_updated() notifies exactly the data outputs, each once
\* (one update per connected input), in ascending order of their index in
\* the outputs list, and no exec output; a node connected only through exec
\* outputs of that node receives no update.
C17_DataOutputsInOrder ==
    last.op = "data_outputs_updated" =>
        /\ last.exc = "none"
        /\ \A h \in 1..Len(Notifications) : port[Notifications[h].src].type_ = "data"
        /\ \A o \in DataOutputsOf(last.node) : Len(DirectCalls(o)) = Len(port[o].conn)
        /\ \A h1, h2 \in 1..Len(Notifications) :
              h1 < h2 => ListIndex(outputs[last.node], Notifications[h1].src)
                            <= ListIndex(outputs[last.node], Notifications[h2].src)
        /\ \A m \in Nodes \ {last.node} : ExecOnly(m) => \A h \in 1..Len(last.calls) : last.calls[h].node # m

\* C17 witness: data_outputs_updated on a node with two connected data
\* outputs and a connected exec output made exactly the two notifications.
C17_Witness ==
    /\ last.op = "data_outputs_updated"
    /\ Cardinality({o \in DataOutputsOf(last.node) : port[o].conn # <<>>}) = 2
    /\ \E o \in OutputsOf(last.node) : port[o].type_ = "exec" /\ port[o].conn # <<>>
    /\ Len(Notifications) = 2

\* C18: about_to_remove_from_scene asks the owned workers to stop, the main
\* widget's removing() first when there is a main widget, then the node's
\* removing(), then disable_personal_logs(), and itself changes no port list
\* and no connection.
C18_StopBeforeTeardown ==
    /\ [](last.op = "about_to_remove_from_scene" =>
            /\ last.exc = "none"
            /\ last.steps = IF HasMainWidget(parent_node[last.node])
                            THEN <<"main_widget.removing", "removing", "disable_personal_logs">>
                            ELSE <<"removing", "disable_personal_logs">>)
    /\ [][last'.op = "about_to_remove_from_scene" =>
            inputs' = inputs /\ outputs' = outputs /\ port' = port]_vars

\* C18 witness: about_to_remove_from_scene on a connected instance that has a
\* main widget.
C18_Witness ==
    /\ last.op = "about_to_remove_from_scene"
    /\ HasMainWidget(parent_node[last.node])
    /\ \E j \in 1..Len(inputs[last.node]) : port[inputs[last.node][j]].conn # <<>>
    /\ Len(last.steps) = 3

\* C19: get_json_data (with get_special_actions_data) leaves the inputs
\* list, the outputs list and the special_actions mapping of the instance,
\* at every nesting level, as they were, so that a second get_json_data
\* returns an equal description.
C19_SerializeReadOnly ==
    [][last'.op = "get_json_data" =>
            /\ inputs' = inputs /\ outputs' = outputs /\ port' = port
            /\ special_actions' = special_actions
            /\ saved' = get_json_data(World, last'.node)
            /\ get_json_data(World, last.node)' = saved']_vars

\* C19 witness: get_json_data on an instance whose special_actions hold a
\* submenu with bound methods.
C19_Witness ==
    /\ last.op = "get_json_data"
    /\ "menu" \in DOMAIN special_actions[last.node].d
    /\ special_actions[last.node].d["menu"].d["shape"].d["method"].t = "M"
    /\ saved.special_actions.d["menu"].d["shape"].d["method"] = StrV("update_shape")

\* C20 as claimed: create_new_input / create_new_output with a position
\* pos < -1 on a list of n ports puts the new port at index max(0, n + pos);
\* -1 is the only negative position that appends.
C20_NegativePosition ==
    [][Creating /\ last'.arg < -1 =>
            PlacedAt(CreateOld, CreateNew,
                     IF Len(CreateOld) + last'.arg < 0 THEN 0 ELSE Len(CreateOld) + last'.arg,
                     Len(port'))]_vars

\* C21 as claimed: a delete_input / delete_output that raises (index out of
\* range, or a port reference not in this instance's list) leaves the inputs
\* and outputs lists and the connections of every port of the flow as they
\* were before the call.
C21_FailedDeleteAtomic ==
    [][Deleting /\ last'.exc # "none" =>
            /\ inputs' = inputs
            /\ outputs' = outputs
            /\ \A p \in Ports : port'[p].conn = port[p].conn]_vars

====
